---- MODULE Spec2Model ----
(***************************************************************************)
(* Model of the paircnt program (src/paircnt/src/main.rs): the extraction  *)
(* of a tag pair from one read (extract_pet), the 2-bit sequence codec,    *)
(* and the worker / aggregator pipeline of main.                           *)
(*                                                                         *)
(* The semiglobal aligner of the bio crate is external: its result for a   *)
(* (pattern, read) pair is an input of the model, a record                 *)
(* [score, ystart, yend, ylen] with 0 <= ystart <= yend <= ylen = len(seq).*)
(* Bases are bytes (ASCII codes); sequence positions are 0-based in the    *)
(* source and 1-based in TLA+ sequences.                                   *)
(***************************************************************************)
EXTENDS Integers, Sequences, FiniteSets, TLC

\* ------------------------------------------------------------------------
\* Bounds of the model
\* ------------------------------------------------------------------------
MaxReads == 2        \* longest input stream
MaxThreads == 2      \* largest --threads value
Flanking == 2        \* --flanking of the pipeline runs
LongLen == 300       \* length of the long read of the extract_pet runs
MaxFlank == 3        \* flanking lengths 0..MaxFlank (and 13) in extract_pet runs
PatternLen == 4      \* pattern.len() of the runs (both patterns have one length)

\* ------------------------------------------------------------------------
\* Program constants
\* ------------------------------------------------------------------------
U8 == 256                 \* width of `as u8`
DefaultFlanking == 13     \* unwrap_or("13")
ScoreRatioNum == 6        \* unwrap_or("0.6") as the fraction 6/10
ScoreRatioDen == 10
NPatterns == 2            \* patterns = [e+l+e_rc, e+l_rc+e_rc]

bA == 65
bC == 67
bG == 71
bT == 84

\* ------------------------------------------------------------------------
\* Sequence codec
\* ------------------------------------------------------------------------
SEQ_NT4_TABLE(b) ==
    IF b < 4 THEN b
    ELSE IF b \in {65, 97} THEN 0
    ELSE IF b \in {67, 99} THEN 1
    ELSE IF b \in {71, 103} THEN 2
    ELSE IF b \in {84, 85, 116, 117} THEN 3
    ELSE 4

IDX_TABLE == <<bA, bC, bG, bT>>

RECURSIVE Pow2(_)
Pow2(n) == IF n = 0 THEN 1 ELSE 2 * Pow2(n - 1)

\* a << n for values that stay inside the word
Shl(a, n) == a * Pow2(n)

\* a | b, bit by bit
BitOrOf[a \in Nat, b \in Nat] ==
    IF a = 0 THEN b
    ELSE IF b = 0 THEN a
    ELSE (IF (a % 2) + (b % 2) > 0 THEN 1 ELSE 0) + 2 * BitOrOf[a \div 2, b \div 2]

BitOr(a, b) == BitOrOf[a, b]

RECURSIVE CompressFwd(_, _)
\* res after the iterations i = 0 .. n-1 of the loop
CompressFwd(seq, n) ==
    IF n = 0 THEN 0
    ELSE BitOr(CompressFwd(seq, n - 1), Shl(SEQ_NT4_TABLE(seq[n]), (n - 1) * 2))

RECURSIVE CompressRc(_, _)
\* res_rc after the iterations i = 0 .. n-1 of the loop
CompressRc(seq, n) ==
    IF n = 0 THEN 0
    ELSE BitOr(CompressRc(seq, n - 1),
               Shl(3 - SEQ_NT4_TABLE(seq[n]), ((Len(seq) - 1) - (n - 1)) * 2))

\* compress_seq on 1..32 bases of {A,C,G,T}: the smaller of the two codes
compress_seq(seq) ==
    LET res == CompressFwd(seq, Len(seq))
        res_rc == CompressRc(seq, Len(seq))
    IN  IF res > res_rc THEN res_rc ELSE res

RECURSIVE RecoverUpTo(_, _)
RecoverUpTo(code, n) ==
    IF n = 0 THEN <<>>
    ELSE Append(RecoverUpTo(code, n - 1), IDX_TABLE[((code \div Pow2((n - 1) * 2)) % 4) + 1])

recover_seq(code, k) == RecoverUpTo(code, k)

\* ------------------------------------------------------------------------
\* Tag extraction
\* ------------------------------------------------------------------------
ResOk(left, right) == [tag |-> "Ok", left |-> left, right |-> right]
ScoreTooLow == [tag |-> "ScoreTooLow", left |-> <<>>, right |-> <<>>]
LeftTooShort == [tag |-> "LeftTooShort", left |-> <<>>, right |-> <<>>]
RightTooShort == [tag |-> "RightTooShort", left |-> <<>>, right |-> <<>>]

\* `alignment.ystart as u8`
AsU8(n) == n % U8

\* variant: the right tag is sliced from the match start
extract_pet_rightFromStart(seq, plen, alignment, flank) ==
    IF alignment.score * ScoreRatioDen < plen * ScoreRatioNum
    THEN <<[tag |-> "ScoreTooLow", left |-> <<>>, right |-> <<>>], alignment>>
    ELSE IF (alignment.ystart % U8) < flank
    THEN <<[tag |-> "LeftTooShort", left |-> <<>>, right |-> <<>>], alignment>>
    ELSE LET s == alignment.ystart - flank
             left == SubSeq(seq, s + 1, alignment.ystart)
             e == alignment.yend + flank
         IN  IF e > alignment.ylen
             THEN <<[tag |-> "RightTooShort", left |-> <<>>, right |-> <<>>], alignment>>
             ELSE <<[tag |-> "Ok", left |-> left,
                     right |-> SubSeq(seq, alignment.ystart + 1, alignment.ystart + flank)],
                    alignment>>

\* extract_pet(seq, pattern, flanking, score_ratio_thresh); plen is
\* pattern.len() and alignment the result of aligner.semiglobal(pattern, seq)
extract_pet(seq, plen, alignment, flank) ==
    IF alignment.score * ScoreRatioDen < plen * ScoreRatioNum
    THEN <<ScoreTooLow, alignment>>
    ELSE IF AsU8(alignment.ystart) < flank
    THEN <<LeftTooShort, alignment>>
    ELSE LET s == alignment.ystart - flank
             left == SubSeq(seq, s + 1, alignment.ystart)
             e == alignment.yend + flank
         IN  IF e > alignment.ylen
             THEN <<RightTooShort, alignment>>
             ELSE <<ResOk(left, SubSeq(seq, alignment.yend + 1, e)), alignment>>

RECURSIVE PatternLoop(_, _, _)
\* the `for pattern in patterns.iter()` loop of the worker, from pattern p on,
\* with align_res holding the attempts so far
PatternLoop(read, p, acc) ==
    IF p > NPatterns THEN acc
    ELSE LET r == extract_pet(read.seq, PatternLen, read.aln[p], Flanking)
             acc2 == Append(acc, r)
         IN  IF r[1].tag = "Ok" THEN acc2 ELSE PatternLoop(read, p + 1, acc2)

\* ------------------------------------------------------------------------
\* Input records of the pipeline runs
\* ------------------------------------------------------------------------
Aln(score, ystart, yend, ylen) ==
    [score |-> score, ystart |-> ystart, yend |-> yend, ylen |-> ylen]

SeqA == <<bA, bG, bG, bG, bG, bG, bG, bG, bT, bT, bT, bC>>
SeqB == <<bA, bC, bC, bC, bG, bG, bG, bG, bC, bA, bA, bT>>
SeqE == <<bC, bT, bT, bT, bG, bG, bG, bG, bG, bG, bG, bA>>

\* first pattern matches with room on both sides
RecA == [id |-> "a", ok |-> TRUE, seq |-> SeqA,
         aln |-> <<Aln(4, 4, 8, 12), Aln(0, 0, 4, 12)>>]
\* first pattern scores too low, second pattern matches
RecB == [id |-> "b", ok |-> TRUE, seq |-> SeqB,
         aln |-> <<Aln(1, 4, 8, 12), Aln(4, 4, 8, 12)>>]
\* first pattern too close to the left end, second too close to the right end
RecC == [id |-> "c", ok |-> TRUE, seq |-> SeqA,
         aln |-> <<Aln(4, 1, 5, 12), Aln(3, 7, 11, 12)>>]
\* a record the fastq reader fails to parse
RecD == [id |-> "d", ok |-> FALSE, seq |-> <<>>,
         aln |-> <<Aln(0, 0, 0, 0), Aln(0, 0, 0, 0)>>]
\* the tags of RecA on the opposite sides of the linker
RecE == [id |-> "e", ok |-> TRUE, seq |-> SeqE,
         aln |-> <<Aln(4, 4, 8, 12), Aln(0, 0, 4, 12)>>]

Catalogue == {RecA, RecB, RecC, RecD, RecE}

Inputs == UNION {[1..n -> Catalogue] : n \in 0..MaxReads}

\* ------------------------------------------------------------------------
\* State
\* ------------------------------------------------------------------------
VARIABLES
    threads,      \* --threads
    input,        \* the records of the fastq file, in file order
    records,      \* number of records the shared iterator has yielded
    guards,       \* workers holding a MutexGuard of `records`
    poisoned,     \* the Mutex is poisoned
    wpc,          \* per worker: position in the closure
    rec,          \* per worker: index in input of the record it holds, 0 if none
    align_res,    \* per worker: its align_res vector
    pulled,       \* per record: how many times records.next() has yielded it
    senders,      \* live Sender handles of the channel (tx and the tx1 clones)
    chan,         \* messages sent and not yet received
    freq,         \* HashMap<(u64, u64), u64>
    counter,      \* ResCounter
    detail,       \* detail_file is Some
    detail_log,   \* lines written to the detail file
    mpc,          \* position of the main thread
    recv_err,     \* the Err that ended the receive loop, "" before
    joined,       \* handles joined so far
    cnt_file,     \* lines of <prefix>.cnt
    fq_out,       \* records of <prefix>.cnt.fq
    call,         \* arguments of a stand-alone call of a function
    ret,          \* its result
    sam,          \* getedges: the alignment lines of the SAM file, in file order
    cnt_lines,    \* getedges: the lines of the pair count file
    th,           \* getedges: th_mapq, th_mismatch, th_aligned
    edge_detail,  \* getedges: detail_file is Some
    epc,          \* getedges: position of main
    sam_pos,      \* getedges: lines load_sam has read
    key2node,     \* getedges: HashMap<u64, Node> built by load_sam
    cnt_pos,      \* getedges: lines of the count file processed
    bait_prey_cnt, \* getedges: HashMap<(bait, prey), u64>
    res_counter,  \* getedges: ResCounter
    pair_log,     \* getedges: lines written to the detail file
    file_out      \* getedges: lines of the output file

vars == <<threads, input, records, guards, poisoned, wpc, rec, align_res, pulled,
          senders, chan, freq, counter, detail, detail_log, mpc, recv_err, joined,
          cnt_file, fq_out, call, ret,
          sam, cnt_lines, th, edge_detail, epc, sam_pos, key2node, cnt_pos,
          bait_prey_cnt, res_counter, pair_log, file_out>>

edgeVars == <<sam, cnt_lines, th, edge_detail, epc, sam_pos, key2node, cnt_pos,
              bait_prey_cnt, res_counter, pair_log, file_out>>

pipeVars == <<threads, input, records, guards, poisoned, wpc, rec, align_res, pulled,
              senders, chan, freq, counter, detail, detail_log, mpc, recv_err, joined,
              cnt_file, fq_out>>

Workers == 1..threads

NoCall == [seq |-> <<>>, plen |-> 0, alignment |-> Aln(0, 0, 0, 0), flanking |-> 0]
NoRet == [tag |-> "", left |-> <<>>, right |-> <<>>]

ResCounter_new ==
    [linker_reads |-> 0, score_too_low |-> 0, left_too_short |-> 0, right_too_short |-> 0]

EmptyFreq == [k \in {} |-> 0]

\* variant: main's tx is dropped once the clones are made
InitSenders_clonesOnly(t) == t

\* Sender handles alive once the workers are spawned: main keeps tx until it
\* returns, every worker owns one clone
InitSenders(t) == t + 1

\* variant: the iterator is read without being advanced
NextCursor_stay(c) == c

\* the iterator position after records.next() has yielded a record
NextCursor(c) == c + 1

\* records.lock() returns only when no guard of the mutex is alive
MutexFree(g) == g = {}

\* variant: the guard outlives the block (bound outside of it)
GuardAfterBlock_kept(g, w) == g

\* the guards once worker w leaves the block `let rec = { ... }`: its guard is
\* a local of the block and is dropped there, on break and on panic as well
GuardAfterBlock(g, w) == g \ {w}

\* getedges ResCounter::new
EdgeCounter_new ==
    [n_valid_pair |-> 0, n_prey_nv_pair |-> 0, n_bait_nv_pair |-> 0, n_nv_pair |-> 0]

EmptyMap == [k \in {} |-> 0]

\* getedges: the state of main when load_sam is called
EdgesInit(s, c, t, d) ==
    /\ sam = s
    /\ cnt_lines = c
    /\ th = t
    /\ edge_detail = d
    /\ epc = "load"
    /\ sam_pos = 0
    /\ key2node = EmptyMap
    /\ cnt_pos = 0
    /\ bait_prey_cnt = EmptyMap
    /\ res_counter = EdgeCounter_new
    /\ pair_log = <<>>
    /\ file_out = <<>>

\* th_mapq, th_mismatch, th_aligned: unwrap_or("0"), ("0"), ("1")
DefaultTh == [mapq |-> 0, mismatch |-> 0, aligned |-> 1]

\* getedges with empty input files, not started
EdgesIdle == EdgesInit(<<>>, <<>>, DefaultTh, FALSE)

\* the state main has built when the receive loop starts: the workers are
\* spawned, tx is still owned by main
PipeInit(t, in, d) ==
    /\ threads = t
    /\ input = in
    /\ records = 0
    /\ guards = {}
    /\ poisoned = FALSE
    /\ wpc = [w \in 1..t |-> "lock"]
    /\ rec = [w \in 1..t |-> 0]
    /\ align_res = [w \in 1..t |-> <<>>]
    /\ pulled = [i \in 1..Len(in) |-> 0]
    /\ senders = InitSenders(t)
    /\ chan = <<>>
    /\ freq = EmptyFreq
    /\ counter = ResCounter_new
    /\ detail = d
    /\ detail_log = <<>>
    /\ mpc = "recv"
    /\ recv_err = ""
    /\ joined = 0
    /\ cnt_file = <<>>
    /\ fq_out = <<>>

Init ==
    /\ \E t \in 0..MaxThreads, in \in Inputs, d \in BOOLEAN : PipeInit(t, in, d)
    /\ call = NoCall
    /\ ret = NoRet
    /\ EdgesIdle

\* variant: the workers are cancelled when the aggregator leaves its loop
ProcessAlive_untilStop == mpc = "recv"

\* the process is running: main has neither returned nor panicked
ProcessAlive == mpc \notin {"done", "panicked"}

\* ------------------------------------------------------------------------
\* Worker closure
\* ------------------------------------------------------------------------
\* records.lock().unwrap(): blocks until the mutex is free; a poisoned mutex
\* makes unwrap panic, which drops the guard and the worker's tx1
WorkerLock(w) ==
    /\ ProcessAlive
    /\ wpc[w] = "lock"
    /\ MutexFree(guards)
    /\ IF poisoned
       THEN /\ wpc' = [wpc EXCEPT ![w] = "panicked"]
            /\ senders' = senders - 1
            /\ UNCHANGED guards
       ELSE /\ wpc' = [wpc EXCEPT ![w] = "next"]
            /\ guards' = guards \cup {w}
            /\ UNCHANGED senders
    /\ UNCHANGED <<threads, input, records, poisoned, rec, align_res, pulled, chan,
                   freq, counter, detail, detail_log, mpc, recv_err, joined,
                   cnt_file, fq_out, call, ret, edgeVars>>

\* records.next() under the guard, then the guard is dropped: None breaks the
\* loop, Some(Err) panics with the guard held (poisoning the mutex), Some(Ok)
\* hands the record to the worker
WorkerNext(w) ==
    /\ ProcessAlive
    /\ wpc[w] = "next"
    /\ guards' = GuardAfterBlock(guards, w)
    /\ IF records >= Len(input)
       THEN /\ wpc' = [wpc EXCEPT ![w] = "exited"]
            /\ senders' = senders - 1
            /\ UNCHANGED <<records, poisoned, rec, pulled>>
       ELSE /\ records' = NextCursor(records)
            /\ pulled' = [pulled EXCEPT ![records + 1] = @ + 1]
            /\ IF input[records + 1].ok
               THEN /\ wpc' = [wpc EXCEPT ![w] = "extract"]
                    /\ rec' = [rec EXCEPT ![w] = records + 1]
                    /\ UNCHANGED <<poisoned, senders>>
               ELSE /\ wpc' = [wpc EXCEPT ![w] = "panicked"]
                    /\ poisoned' = TRUE
                    /\ senders' = senders - 1
                    /\ UNCHANGED rec
    /\ UNCHANGED <<threads, input, align_res, chan, freq, counter, detail, detail_log,
                   mpc, recv_err, joined, cnt_file, fq_out, call, ret, edgeVars>>

\* the pattern loop: extract_pet per pattern until the first Ok
WorkerExtract(w) ==
    /\ ProcessAlive
    /\ wpc[w] = "extract"
    /\ align_res' = [align_res EXCEPT ![w] = PatternLoop(input[rec[w]], 1, <<>>)]
    /\ wpc' = [wpc EXCEPT ![w] = "send"]
    /\ UNCHANGED <<threads, input, records, guards, poisoned, rec, pulled, senders,
                   chan, freq, counter, detail, detail_log, mpc, recv_err, joined,
                   cnt_file, fq_out, call, ret, edgeVars>>

\* tx1.send((align_res, rec_id)).unwrap(): the channel is unbounded and rx
\* lives as long as main, so the send neither blocks nor fails
WorkerSend(w) ==
    /\ ProcessAlive
    /\ wpc[w] = "send"
    /\ chan' = Append(chan, [align_res |-> align_res[w], rec_id |-> input[rec[w]].id])
    /\ wpc' = [wpc EXCEPT ![w] = "lock"]
    /\ rec' = [rec EXCEPT ![w] = 0]
    /\ align_res' = [align_res EXCEPT ![w] = <<>>]
    /\ UNCHANGED <<threads, input, records, guards, poisoned, pulled, senders,
                   freq, counter, detail, detail_log, mpc, recv_err, joined,
                   cnt_file, fq_out, call, ret, edgeVars>>

\* ------------------------------------------------------------------------
\* Aggregator (main thread)
\* ------------------------------------------------------------------------
\* variant: the first attempt is reported
LastAttempt_first(ar) == ar[1]

\* res = &align_res[align_res.len()-1]
LastAttempt(ar) == ar[Len(ar)]

\* the line of the detail file for one message
DetailLine(msg) ==
    LET alignment == LastAttempt(msg.align_res)[2]
    IN  [rec_id |-> msg.rec_id, attempts |-> Len(msg.align_res),
         score |-> alignment.score, ystart |-> alignment.ystart, yend |-> alignment.yend]

\* variant: the two codes are not ordered
PairKey_unordered(left, right) == <<compress_seq(left), compress_seq(right)>>

\* key of an Ok result: the two codes, smaller first
PairKey(left, right) ==
    LET k0 == compress_seq(left)
        k1 == compress_seq(right)
    IN  IF k0 > k1 THEN <<k1, k0>> ELSE <<k0, k1>>

\* variant: the entry is set to 1 whether or not the key is present
FreqAdd_insertOne(f, key) ==
    [k \in DOMAIN f \cup {key} |-> IF k = key THEN 1 ELSE f[k]]

\* *freq.entry(key).or_insert(0) += 1
FreqAdd(f, key) ==
    IF key \in DOMAIN f
    THEN [f EXCEPT ![key] = @ + 1]
    ELSE [k \in DOMAIN f \cup {key} |-> IF k = key THEN 1 ELSE f[k]]

\* ResCounter::count
ResCounter_count(c, res) ==
    CASE res.tag = "Ok" -> [c EXCEPT !.linker_reads = @ + 1]
      [] res.tag = "ScoreTooLow" -> [c EXCEPT !.score_too_low = @ + 1]
      [] res.tag = "LeftTooShort" -> [c EXCEPT !.left_too_short = @ + 1]
      [] res.tag = "RightTooShort" -> [c EXCEPT !.right_too_short = @ + 1]

\* what the aggregator does with one received message
FreqAfter(f, msg) ==
    LET res == LastAttempt(msg.align_res)[1]
    IN  IF res.tag = "Ok" THEN FreqAdd(f, PairKey(res.left, res.right)) ELSE f

\* rx.recv_timeout returned Ok: a message was in the channel
AggRecv ==
    /\ mpc = "recv"
    /\ chan # <<>>
    /\ LET msg == Head(chan)
       IN  /\ detail_log' = IF detail THEN Append(detail_log, DetailLine(msg))
                                      ELSE detail_log
           /\ freq' = FreqAfter(freq, msg)
           /\ counter' = ResCounter_count(counter, LastAttempt(msg.align_res)[1])
    /\ chan' = Tail(chan)
    /\ UNCHANGED <<threads, input, records, guards, poisoned, wpc, rec, align_res,
                   pulled, senders, detail, mpc, recv_err, joined, cnt_file, fq_out,
                   call, ret, edgeVars>>

\* variant: a receive without timeout, which waits while a Sender is alive
IdleTimeout_never(c) == FALSE

\* recv_timeout(wait_t) gives up: no message arrived for wait_t
IdleTimeout(c) == c = <<>>

\* the Err of recv_timeout on an empty channel: Disconnected when no Sender
\* is left, Timeout once wait_t has elapsed
RecvError(n) == IF n = 0 THEN "Disconnected" ELSE "Timeout"

\* rx.recv_timeout returned Err: the channel stayed empty; the `_` arm breaks
AggStop ==
    /\ mpc = "recv"
    /\ IdleTimeout(chan)
    /\ recv_err' = RecvError(senders)
    /\ mpc' = IF threads = 0 THEN "write" ELSE "join"
    /\ UNCHANGED <<threads, input, records, guards, poisoned, wpc, rec, align_res,
                   pulled, senders, chan, freq, counter, detail, detail_log, joined,
                   cnt_file, fq_out, call, ret, edgeVars>>

\* variant: the handles are dropped without being joined
JoinReturns_detached(j) == TRUE

\* handle.join() returns: the thread has finished
JoinReturns(j) == wpc[j] \in {"exited", "panicked"}

\* variant: the result of join is discarded
JoinErr_discarded(j) == FALSE

\* handle.join() is Err: the thread panicked
JoinErr(j) == wpc[j] = "panicked"

\* handle.join().unwrap() on the next handle
MainJoin ==
    /\ mpc = "join"
    /\ LET j == joined + 1
       IN  /\ JoinReturns(j)
           /\ IF JoinErr(j)
              THEN /\ mpc' = "panicked"
                   /\ UNCHANGED joined
              ELSE /\ joined' = j
                   /\ mpc' = IF j = threads THEN "write" ELSE "join"
    /\ UNCHANGED <<threads, input, records, guards, poisoned, wpc, rec, align_res,
                   pulled, senders, chan, freq, counter, detail, detail_log, recv_err,
                   cnt_file, fq_out, call, ret, edgeVars>>

\* kv_vec after sort_by(|a, b| b.2.cmp(a.2)): the entries of freq by
\* descending count; the order of equal counts is that of the HashMap iteration
SortedEntries(f) ==
    LET n == Cardinality(DOMAIN f)
    IN  {s \in [1..n -> {<<k[1], k[2], f[k]>> : k \in DOMAIN f}] :
            /\ \A i, j \in 1..n : i # j => s[i] # s[j]
            /\ \A i, j \in 1..n : i < j => s[i][3] >= s[j][3]}

RECURSIVE SortedSeq(_)
\* key_vec after sort()
SortedSeq(S) ==
    IF S = {} THEN <<>>
    ELSE LET m == CHOOSE x \in S : \A y \in S : x <= y
         IN  <<m>> \o SortedSeq(S \ {m})

KeySet(f) == {k[1] : k \in DOMAIN f} \cup {k[2] : k \in DOMAIN f}

FqRecord(k) ==
    LET seq == recover_seq(k, Flanking)
    IN  [id |-> k, seq |-> seq, qual |-> [i \in 1..Len(seq) |-> 126]]

\* the pair-count file and the sequence catalogue are written
MainWrite ==
    /\ mpc = "write"
    /\ cnt_file' \in SortedEntries(freq)
    /\ fq_out' = LET key_vec == SortedSeq(KeySet(freq))
                 IN  [i \in 1..Len(key_vec) |-> FqRecord(key_vec[i])]
    /\ mpc' = "done"
    /\ UNCHANGED <<threads, input, records, guards, poisoned, wpc, rec, align_res,
                   pulled, senders, chan, freq, counter, detail, detail_log, recv_err,
                   joined, call, ret, edgeVars>>

Next ==
    \/ \E w \in Workers : WorkerLock(w)
    \/ \E w \in Workers : WorkerNext(w)
    \/ \E w \in Workers : WorkerExtract(w)
    \/ \E w \in Workers : WorkerSend(w)
    \/ AggRecv
    \/ AggStop
    \/ MainJoin
    \/ MainWrite

Spec == Init /\ [][Next]_vars

MaxFairThreads == 2  \* most worker threads of the fair runs
MaxFairReads == 1    \* most reads of the input of the fair runs

FairInit ==
    /\ \E t \in 0..MaxFairThreads,
          in \in UNION {[1..n -> Catalogue] : n \in 0..MaxFairReads} :
          PipeInit(t, in, FALSE)
    /\ call = NoCall
    /\ ret = NoRet
    /\ EdgesIdle

\* Scheduling: a thread that can take a step of its own code eventually takes
\* it, and a timer that has run out fires.  The extraction is left out: how
\* long extract_pet takes is the business of the alignment.
SchedFair ==
    /\ \A w \in 1..MaxFairThreads :
          /\ WF_vars(w \in Workers /\ WorkerLock(w))
          /\ WF_vars(w \in Workers /\ WorkerNext(w))
          /\ WF_vars(w \in Workers /\ WorkerSend(w))
    /\ WF_vars(AggRecv)
    /\ WF_vars(AggStop)
    /\ WF_vars(MainJoin)
    /\ WF_vars(MainWrite)

SpecFair == FairInit /\ [][Next]_vars /\ SchedFair

TypeOK ==
    /\ threads \in 0..MaxThreads
    /\ records \in 0..Len(input)
    /\ guards \subseteq Workers
    /\ mpc \in {"recv", "join", "write", "done", "panicked"}

\* ------------------------------------------------------------------------
\* Stand-alone calls of extract_pet
\* ------------------------------------------------------------------------
\* a read long enough for match offsets beyond the range of u8
LongRead == [i \in 1..LongLen |-> IDX_TABLE[((i * i + i \div 3) % 4) + 1]]

ExtractSeqs == {SeqA, LongRead}
ExtractFlankings == (0..MaxFlank) \cup {DefaultFlanking}
ExtractScores == {-1, 2, 3, 4}
ExtractPlens == {4, 5}
ExtractStarts == (0..4) \cup {8, 12, 13, 14, 255, 256, 257, 258, 268, 269, 270, 280}

\* the alignments the aligner can return on seq: 0 <= ystart <= yend <= ylen
ExtractAlignments(seq) ==
    {Aln(sc, ys, ye, Len(seq)) :
        sc \in ExtractScores,
        ys \in {y \in ExtractStarts : y <= Len(seq)},
        ye \in {y \in 0..Len(seq) : \/ y >= Len(seq) - DefaultFlanking - 1
                                    \/ y \in ExtractStarts}} 

ExtractCalls ==
    {[seq |-> seq, plen |-> pl, alignment |-> a, flanking |-> fl] :
        seq \in ExtractSeqs, pl \in ExtractPlens, fl \in ExtractFlankings,
        a \in UNION {ExtractAlignments(q) : q \in ExtractSeqs}}

ExtractInit ==
    /\ PipeInit(0, <<>>, FALSE)
    /\ call \in {c \in ExtractCalls : /\ c.alignment.ylen = Len(c.seq)
                                      /\ c.alignment.ystart <= c.alignment.yend}
    /\ ret = NoRet
    /\ EdgesIdle

\* one call of extract_pet on the arguments in `call`
ExtractCall ==
    /\ ret = NoRet
    /\ ret' = extract_pet(call.seq, call.plen, call.alignment, call.flanking)[1]
    /\ UNCHANGED call
    /\ UNCHANGED pipeVars
    /\ UNCHANGED edgeVars

ExtractNext == ExtractCall

SpecExtract == ExtractInit /\ [][ExtractNext]_vars

\* ------------------------------------------------------------------------
\* Sequence codec on full 64-bit words
\* ------------------------------------------------------------------------
\* A u64 is a sequence of 64 bits, least significant first.  `checks` tells
\* whether the build has overflow checks (the default of a debug build: an
\* arithmetic or shift overflow panics) or not (the default of a release
\* build: arithmetic wraps, a shift amount is taken modulo 64).
WordBits == 64
MaxCode == 32             \* `if i >= 32`

ZeroW == [i \in 1..WordBits |-> 0]
OnesW == [i \in 1..WordBits |-> 1]
\* the word of a number below 8
SmallW(n) == [i \in 1..WordBits |-> IF i <= 3 THEN (n \div Pow2(i - 1)) % 2 ELSE 0]
ShlW(w, n) == [i \in 1..WordBits |-> IF i > n THEN w[i - n] ELSE 0]
ShrW(w, n) == [i \in 1..WordBits |-> IF i + n <= WordBits THEN w[i + n] ELSE 0]
OrW(a, b) == [i \in 1..WordBits |-> IF a[i] = 1 \/ b[i] = 1 THEN 1 ELSE 0]
AndW(a, b) == [i \in 1..WordBits |-> IF a[i] = 1 /\ b[i] = 1 THEN 1 ELSE 0]
\* a > b as unsigned numbers
GtW(a, b) ==
    \E i \in 1..WordBits :
        /\ a[i] = 1
        /\ b[i] = 0
        /\ \A j \in (i + 1)..WordBits : a[j] = b[j]
\* the value of a word below 8
LowValue(w) == w[1] + 2 * w[2] + 4 * w[3]

\* variant: the complement is stored at position i, not at end - i
RcShift_sameIndex(n, i) == i * 2

\* the shift amount of the reverse-complement digit of base i of n bases
RcShift(n, i) == ((n - 1) - i) * 2

CompressPanic == [kind |-> "Panic", code |-> ZeroW, overflow |-> TRUE]
CompressErr(ov) == [kind |-> "Err", code |-> ZeroW, overflow |-> ov]

RECURSIVE CompressLoop(_, _, _, _, _, _)
\* the iterations i, i+1, ... of the loop of compress_seq and its return;
\* ov tells whether an operation has overflowed so far
CompressLoop(seq, i, res, res_rc, ov, checks) ==
    IF i >= Len(seq)
    THEN [kind |-> "Ok", code |-> IF GtW(res, res_rc) THEN res_rc ELSE res,
          overflow |-> ov]
    ELSE IF i >= MaxCode
    THEN CompressErr(ov)
    ELSE LET m == SEQ_NT4_TABLE(seq[i + 1])
             subOv == m > 3
             sh == RcShift(Len(seq), i)
             shOv == sh >= WordBits
             comp == IF subOv THEN OnesW ELSE SmallW(3 - m)
         IN  IF checks /\ (subOv \/ shOv)
             THEN CompressPanic
             ELSE CompressLoop(seq, i + 1,
                               OrW(res, ShlW(SmallW(m), i * 2)),
                               OrW(res_rc, ShlW(comp, sh % WordBits)),
                               ov \/ subOv \/ shOv, checks)

\* compress_seq of paircnt; `let end = seq.len() - 1` overflows on an empty
\* slice
compress_seq64(seq, checks) ==
    IF Len(seq) = 0
    THEN IF checks THEN CompressPanic
         ELSE CompressLoop(seq, 0, ZeroW, ZeroW, TRUE, checks)
    ELSE CompressLoop(seq, 0, ZeroW, ZeroW, FALSE, checks)

\* recover_seq of paircnt for k <= 32
recover_seq64(code, k) ==
    [n \in 1..k |->
        LET i == n - 1
            mask == ShlW(SmallW(3), i * 2)
            idx == ShrW(AndW(code, mask), i * 2)
        IN  IDX_TABLE[LowValue(idx) + 1]]

\* ------------------------------------------------------------------------
\* Stand-alone calls of the codec
\* ------------------------------------------------------------------------
MaxCodecLen == 3     \* all sequences over {A,C,G,T} of 1..MaxCodecLen bases

bN == 78
Bases == {bA, bC, bG, bT}

PatternSeq(n, k) == [i \in 1..n |-> IDX_TABLE[((i * k + i \div 3) % 4) + 1]]
ConstSeq(n, b) == [i \in 1..n |-> b]

CodecSeqs ==
    UNION {[1..n -> Bases] : n \in 0..MaxCodecLen}
    \cup {PatternSeq(n, k) : n \in {31, 32, 33}, k \in 1..3}
    \cup {ConstSeq(n, b) : n \in {32, 33}, b \in Bases}
    \cup {<<bN>>, <<bA, bN>>, <<bN, bT, bG>>, [ConstSeq(32, bC) EXCEPT ![32] = bN]}

NoCodecRet == [res |-> [kind |-> "", code |-> ZeroW, overflow |-> FALSE],
               dec_done |-> FALSE, decoded |-> <<>>]

CodecInit ==
    /\ PipeInit(0, <<>>, FALSE)
    /\ EdgesIdle
    /\ \E q \in CodecSeqs, c \in BOOLEAN : call = [seq |-> q, checks |-> c]
    /\ ret = NoCodecRet

\* compress_seq(seq)
CompressCall ==
    /\ ret.res.kind = ""
    /\ ret' = [ret EXCEPT !.res = compress_seq64(call.seq, call.checks)]
    /\ UNCHANGED <<call, pipeVars, edgeVars>>

\* recover_seq(code, k) on the code of the sequence and its length
RecoverCall ==
    /\ ret.res.kind = "Ok"
    /\ ~ret.dec_done
    /\ ret' = [ret EXCEPT !.dec_done = TRUE,
                          !.decoded = recover_seq64(ret.res.code, Len(call.seq))]
    /\ UNCHANGED <<call, pipeVars, edgeVars>>

CodecNext == CompressCall \/ RecoverCall

SpecCodec == CodecInit /\ [][CodecNext]_vars

\* ------------------------------------------------------------------------
\* Stand-alone calls of the two versions of recover_seq
\* ------------------------------------------------------------------------
MaxRecoverLen == 3   \* lengths 0..MaxRecoverLen, and 31 and 32

Decoded(chars) == [kind |-> "Ok", chars |-> chars]
RecoverPanic == [kind |-> "Panic", chars |-> <<>>]
NoDecoded == [kind |-> "", chars |-> <<>>]

\* the n characters the loop pushes for i = 0..n-1; i is a u8, so without
\* overflow checks i*2 wraps at 256 and the shift amount is taken modulo 64
RecoverChars(code, n) ==
    [j \in 1..n |->
        LET i == j - 1
            sh == ((i * 2) % U8) % WordBits
            mask == ShlW(SmallW(3), sh)
            idx == ShrW(AndW(code, mask), sh)
        IN  IDX_TABLE[LowValue(idx) + 1]]

\* the end of the range `0..(k-1)` for k >= 1
LoopEnd(k) == k - 1

\* recover_seq of the single-threaded program; `k-1` overflows for k = 0:
\* with overflow checks it panics, without it is 255
recover_seq_single(code, k, checks) ==
    IF k = 0
    THEN IF checks THEN RecoverPanic ELSE Decoded(RecoverChars(code, U8 - 1))
    ELSE Decoded(RecoverChars(code, LoopEnd(k)))

RecoverCodes ==
    {ZeroW, OnesW}
    \cup {compress_seq64(PatternSeq(32, n), FALSE).code : n \in 1..3}
    \cup {compress_seq64(<<bG, bT, bC>>, FALSE).code}
RecoverLens == 0..MaxRecoverLen \cup {31, 32}

RecoverInit ==
    /\ PipeInit(0, <<>>, FALSE)
    /\ EdgesIdle
    /\ \E c \in RecoverCodes, k \in RecoverLens, b \in BOOLEAN :
           call = [code |-> c, k |-> k, checks |-> b]
    /\ ret = [paircnt |-> NoDecoded, single |-> NoDecoded]

\* recover_seq(code, k) of paircnt
RecoverPaircnt ==
    /\ ret.paircnt = NoDecoded
    /\ ret' = [ret EXCEPT !.paircnt = Decoded(recover_seq64(call.code, call.k))]
    /\ UNCHANGED <<call, pipeVars, edgeVars>>

\* recover_seq(code, k) of the single-threaded program
RecoverSingle ==
    /\ ret.single = NoDecoded
    /\ ret' = [ret EXCEPT !.single = recover_seq_single(call.code, call.k, call.checks)]
    /\ UNCHANGED <<call, pipeVars, edgeVars>>

RecoverNext == RecoverPaircnt \/ RecoverSingle

SpecRecover == RecoverInit /\ [][RecoverNext]_vars

\* ------------------------------------------------------------------------
\* getedges: alignment records and node classification
\* ------------------------------------------------------------------------
\* A reference name is its prefix ("bait_", "prey_" or "") and the rest, so
\* that starts_with is a test of the prefix.  A SAM line is its fields
\* items[0] (qname), items[2] (rname), items[4] (mapq) and the optional fields
\* items[11..]; an optional field is its two-letter tag and a number: the
\* <n> of NM:i:<n>, the number of pieces split(";") yields for XA.
RName(prefix, rest) == [prefix |-> prefix, rest |-> rest]
Unmapped == RName("", "*")
Opt(tag, val) == [tag |-> tag, val |-> val]
SamLine(header, qname, rname, mapq, opt) ==
    [header |-> header, qname |-> qname, rname |-> rname, mapq |-> mapq, opt |-> opt]

NFirstOpt == 11      \* items[11] is the first optional field
NLoopFrom == 12      \* `for i in 12..items.len()`

RECURSIVE ScanOpt(_, _, _, _)
\* the loop over items[i..]; opt[j] is items[NFirstOpt + j - 1]
ScanOpt(opt, i, nm, na) ==
    LET j == i - NFirstOpt + 1
    IN  IF j > Len(opt) THEN [nm |-> nm, na |-> na]
        ELSE IF opt[j].tag = "NM" THEN ScanOpt(opt, i + 1, opt[j].val, na)
        ELSE IF opt[j].tag = "XA" THEN [nm |-> nm, na |-> na + opt[j].val]
        ELSE ScanOpt(opt, i + 1, nm, na)

\* parse_bwa_sam_rec
parse_bwa_sam_rec(line) ==
    LET na0 == IF line.rname = Unmapped THEN 0 ELSE 1
        sc == ScanOpt(line.opt, NLoopFrom, 0, na0)
    IN  [qname |-> line.qname, rname |-> line.rname, mapq |-> line.mapq,
         n_mismatch |-> sc.nm, n_aligned |-> sc.na]

Bait(name) == [kind |-> "Bait", name |-> name, reason |-> "", value |-> 0]
Prey(name) == [kind |-> "Prey", name |-> name, reason |-> "", value |-> 0]
NotValid(reason, value) ==
    [kind |-> "NotValid", name |-> Unmapped, reason |-> reason, value |-> value]
\* the panic of load_sam on a reference name with another prefix
NodePanic == [kind |-> "Panic", name |-> Unmapped, reason |-> "", value |-> 0]

\* variant: the mapping quality is tested before the unmapped sentinel
Classify_mapqFirst(r, t) ==
    IF r.mapq < t.mapq THEN NotValid("MapqTooSmall", r.mapq)
    ELSE IF r.rname = Unmapped THEN NotValid("NotFound", 0)
    ELSE IF r.n_mismatch > t.mismatch THEN NotValid("TooManyMisMatch", r.n_mismatch)
    ELSE IF r.n_aligned > t.aligned THEN NotValid("TooManyAligned", r.n_aligned)
    ELSE IF r.rname.prefix = "bait_" THEN Bait(r.rname)
    ELSE IF r.rname.prefix = "prey_" THEN Prey(r.rname)
    ELSE NodePanic

\* the node load_sam derives from a parsed record
Classify(r, t) ==
    IF r.rname = Unmapped THEN NotValid("NotFound", 0)
    ELSE IF r.mapq < t.mapq THEN NotValid("MapqTooSmall", r.mapq)
    ELSE IF r.n_mismatch > t.mismatch THEN NotValid("TooManyMisMatch", r.n_mismatch)
    ELSE IF r.n_aligned > t.aligned THEN NotValid("TooManyAligned", r.n_aligned)
    ELSE IF r.rname.prefix = "bait_" THEN Bait(r.rname)
    ELSE IF r.rname.prefix = "prey_" THEN Prey(r.rname)
    ELSE NodePanic

\* ------------------------------------------------------------------------
\* Stand-alone classification of one alignment line
\* ------------------------------------------------------------------------
MaxOpt == 3          \* most optional fields of a line

BaitA == RName("bait_", "a")
PreyB == RName("prey_", "b")
Chr1 == RName("", "chr1")

OptFields == {Opt("AS", 0), Opt("NM", 0), Opt("NM", 2), Opt("XA", 1), Opt("XA", 3)}
OptLists == UNION {[1..n -> OptFields] : n \in 0..MaxOpt}
ClassifyLines ==
    {SamLine(FALSE, 7, rn, mq, o) :
        rn \in {Unmapped, BaitA, PreyB, Chr1}, mq \in {0, 10, 30}, o \in OptLists}
Thresholds ==
    {[mapq |-> a, mismatch |-> b, aligned |-> c] : a \in {0, 20}, b \in {0, 1}, c \in {1, 2}}

NoNode == [kind |-> "", name |-> Unmapped, reason |-> "", value |-> 0]

ClassifyInit ==
    /\ PipeInit(0, <<>>, FALSE)
    /\ EdgesIdle
    /\ \E l \in ClassifyLines, t \in Thresholds : call = [line |-> l, th |-> t]
    /\ ret = NoNode

\* the body of the loop of load_sam on one line
ClassifyCall ==
    /\ ret = NoNode
    /\ ret' = Classify(parse_bwa_sam_rec(call.line), call.th)
    /\ UNCHANGED <<call, pipeVars, edgeVars>>

ClassifyNext == ClassifyCall

SpecClassify == ClassifyInit /\ [][ClassifyNext]_vars

\* ------------------------------------------------------------------------
\* getedges: main
\* ------------------------------------------------------------------------
MaxSam == 2          \* most lines of the SAM file
MaxCnt == 2          \* most lines of the pair count file

SamCatalogue ==
    { SamLine(TRUE, 0, Unmapped, 0, <<>>),
      SamLine(FALSE, 7, Unmapped, 0, <<>>),
      SamLine(FALSE, 7, PreyB, 30, <<Opt("AS", 0), Opt("NM", 0)>>),
      SamLine(FALSE, 9, BaitA, 30, <<Opt("AS", 0), Opt("NM", 0)>>),
      SamLine(FALSE, 11, PreyB, 30, <<>>),
      SamLine(FALSE, 11, BaitA, 30, <<Opt("AS", 0), Opt("NM", 2)>>),
      SamLine(FALSE, 9, Chr1, 30, <<>>) }

CntCatalogue == {<<7, 9, 5>>, <<9, 7, 2>>, <<7, 11, 1>>, <<9, 9, 3>>, <<9, 13, 1>>}

EdgesSpecInit ==
    /\ PipeInit(0, <<>>, FALSE)
    /\ call = NoCall
    /\ ret = NoRet
    /\ \E s \in UNION {[1..n -> SamCatalogue] : n \in 0..MaxSam},
          c \in UNION {[1..n -> CntCatalogue] : n \in 0..MaxCnt},
          d \in BOOLEAN :
          EdgesInit(s, c, DefaultTh, d)

\* key2node.insert(rec.qname, node)
MapInsert(m, k, v) == [x \in DOMAIN m \cup {k} |-> IF x = k THEN v ELSE m[x]]

\* one iteration of the loop of load_sam
LoadLine ==
    /\ epc = "load"
    /\ sam_pos < Len(sam)
    /\ sam_pos' = sam_pos + 1
    /\ LET line == sam[sam_pos + 1]
           node == Classify(parse_bwa_sam_rec(line), th)
       IN  IF line.header
           THEN UNCHANGED <<key2node, epc>>
           ELSE IF node = NodePanic
           THEN epc' = "panicked" /\ UNCHANGED key2node
           ELSE key2node' = MapInsert(key2node, line.qname, node) /\ UNCHANGED epc
    /\ UNCHANGED <<sam, cnt_lines, th, edge_detail, cnt_pos, bait_prey_cnt,
                   res_counter, pair_log, file_out, call, ret, pipeVars>>

\* load_sam returns key2node
LoadReturn ==
    /\ epc = "load"
    /\ sam_pos = Len(sam)
    /\ epc' = "count"
    /\ UNCHANGED <<sam, cnt_lines, th, edge_detail, sam_pos, key2node, cnt_pos,
                   bait_prey_cnt, res_counter, pair_log, file_out, call, ret, pipeVars>>

\* variant: the names are taken in the order of the two nodes
EdgeKeyOf_asGiven(node1, node2) == <<node1.name, node2.name>>

\* (b_name, p_name) of the pattern (Prey, Bait) | (Bait, Prey)
EdgeKeyOf(node1, node2) ==
    IF node1.kind = "Bait" THEN <<node1.name, node2.name>>
    ELSE <<node2.name, node1.name>>

\* variant: a counter grows by the count of the pair
PairIncrement_byCount(cnt) == cnt

\* `+= 1` of the pair counters
PairIncrement(cnt) == 1

\* variant: the remaining combinations are counted as NotValid-NotValid
OtherPairs_asInvalid(c) == [c EXCEPT !.n_nv_pair = @ + 1]

\* the arm `_ => {}`
OtherPairs(c) == c

\* *bait_prey_cnt.entry(key).or_insert(0) += cnt
EdgeAdd(m, key, cnt) ==
    [x \in DOMAIN m \cup {key} |->
        IF x = key THEN (IF key \in DOMAIN m THEN m[key] ELSE 0) + cnt ELSE m[x]]

\* getedges ResCounter::count: the table and the counters after the call
EdgeCount(m, c, node1, node2, cnt) ==
    LET kinds == <<node1.kind, node2.kind>>
    IN  IF kinds \in {<<"Prey", "Bait">>, <<"Bait", "Prey">>}
        THEN [table |-> EdgeAdd(m, EdgeKeyOf(node1, node2), cnt),
              counter |-> [c EXCEPT !.n_valid_pair = @ + PairIncrement(cnt)]]
        ELSE IF kinds \in {<<"Prey", "NotValid">>, <<"NotValid", "Prey">>}
        THEN [table |-> m, counter |-> [c EXCEPT !.n_prey_nv_pair = @ + PairIncrement(cnt)]]
        ELSE IF kinds \in {<<"Bait", "NotValid">>, <<"NotValid", "Bait">>}
        THEN [table |-> m, counter |-> [c EXCEPT !.n_bait_nv_pair = @ + PairIncrement(cnt)]]
        ELSE IF kinds = <<"NotValid", "NotValid">>
        THEN [table |-> m, counter |-> [c EXCEPT !.n_nv_pair = @ + PairIncrement(cnt)]]
        ELSE [table |-> m, counter |-> OtherPairs(c)]

\* one iteration of the loop over the count file; key2name[&key] panics when
\* the key is not in the map
CountLine ==
    /\ epc = "count"
    /\ cnt_pos < Len(cnt_lines)
    /\ LET line == cnt_lines[cnt_pos + 1]
           key1 == line[1]
           key2 == line[2]
       IN  IF key1 \notin DOMAIN key2node \/ key2 \notin DOMAIN key2node
           THEN /\ epc' = "panicked"
                /\ UNCHANGED <<cnt_pos, bait_prey_cnt, res_counter, pair_log>>
           ELSE LET node1 == key2node[key1]
                    node2 == key2node[key2]
                    r == EdgeCount(bait_prey_cnt, res_counter, node1, node2, line[3])
                IN  /\ bait_prey_cnt' = r.table
                    /\ res_counter' = r.counter
                    /\ pair_log' = IF edge_detail
                                   THEN Append(pair_log, <<key1, key2, line[3], node1, node2>>)
                                   ELSE pair_log
                    /\ cnt_pos' = cnt_pos + 1
                    /\ UNCHANGED epc
    /\ UNCHANGED <<sam, cnt_lines, th, edge_detail, sam_pos, key2node, file_out,
                   call, ret, pipeVars>>

\* bait_prey_vec after sort_by(|a, b| b.1.cmp(&a.1)): the entries by
\* descending count; the order of equal counts is that of the HashMap
SortedEdges(m) ==
    LET n == Cardinality(DOMAIN m)
    IN  {s \in [1..n -> {<<k[1], k[2], m[k]>> : k \in DOMAIN m}] :
            /\ \A i, j \in 1..n : i # j => s[i] # s[j]
            /\ \A i, j \in 1..n : i < j => s[i][3] >= s[j][3]}

\* the end of the count file: the edges are sorted and written
WriteEdges ==
    /\ epc = "count"
    /\ cnt_pos = Len(cnt_lines)
    /\ file_out' \in SortedEdges(bait_prey_cnt)
    /\ epc' = "done"
    /\ UNCHANGED <<sam, cnt_lines, th, edge_detail, sam_pos, key2node, cnt_pos,
                   bait_prey_cnt, res_counter, pair_log, call, ret, pipeVars>>

EdgesNext == LoadLine \/ LoadReturn \/ CountLine \/ WriteEdges

SpecEdges == EdgesSpecInit /\ [][EdgesNext]_vars

\* ------------------------------------------------------------------------
\* Properties
\* ------------------------------------------------------------------------
AllExited == \A w \in Workers : wpc[w] = "exited"
AllTerminated == \A w \in Workers : wpc[w] \in {"exited", "panicked"}
SomePanicked == \E w \in Workers : wpc[w] = "panicked"
CounterSum ==
    counter.linker_reads + counter.score_too_low
        + counter.left_too_short + counter.right_too_short

\* C1 as stated: for any number of workers, no record is pulled twice and,
\* once all workers have exited normally, every record has been pulled.
C1_AnyWorkerCount ==
    /\ \A i \in 1..Len(input) : pulled[i] <= 1
    /\ AllExited => \A i \in 1..Len(input) : pulled[i] = 1

\* C1 amended: with at least one worker, no record is pulled twice and, once
\* all workers have exited normally, every record has been pulled exactly once.
C1_ExactlyOncePull ==
    threads >= 1 =>
        /\ \A i \in 1..Len(input) : pulled[i] <= 1
        /\ AllExited => \A i \in 1..Len(input) : pulled[i] = 1

C1_Witness ==
    /\ threads >= 2
    /\ Len(input) >= 2
    /\ AllExited
    /\ \A i \in 1..Len(input) : pulled[i] = 1

\* C2: when the run completes (receive loop left, all workers joined) the four
\* outcome counters add up to the number of reads of the input.
C2_CountersSumToReads ==
    (threads >= 1 /\ mpc \in {"write", "done"}) => CounterSum = Len(input)

RECURSIVE RefFreq(_, _)
\* the table of the run that aggregates the first n records one after the other
RefFreq(in, n) ==
    IF n = 0 THEN EmptyFreq
    ELSE FreqAfter(RefFreq(in, n - 1),
                   [align_res |-> PatternLoop(in[n], 1, <<>>), rec_id |-> in[n].id])

RECURSIVE RefCounter(_, _)
RefCounter(in, n) ==
    IF n = 0 THEN ResCounter_new
    ELSE ResCounter_count(RefCounter(in, n - 1),
                          LastAttempt(PatternLoop(in[n], 1, <<>>))[1])

\* C3: a completed run with N > 1 workers ends with the frequency table and
\* the outcome counters of the one-worker run on the same input.
C3_SameAsOneWorker ==
    (threads >= 2 /\ mpc = "done") =>
        /\ freq = RefFreq(input, Len(input))
        /\ counter = RefCounter(input, Len(input))

\* C4: at most one worker holds the lock on the record cursor, and a worker
\* holding it is pulling the next record: it is not extracting, not sending.
C4_LockOnlyWhilePulling ==
    /\ Cardinality(guards) <= 1
    /\ \A w \in guards : wpc[w] = "next"

C4_Witness ==
    /\ guards # {}
    /\ \E w \in Workers : w \notin guards /\ wpc[w] = "extract"

\* C5: the receive loop is left only by a Timeout on an empty channel (never
\* with a result queued, never by a disconnect after the workers have exited),
\* and once it is left no further result is consumed.
C5_StopsOnIdleTimeoutOnly ==
    [][ /\ (mpc = "recv" /\ mpc' # "recv") => (chan = <<>> /\ recv_err' = "Timeout")
        /\ mpc # "recv" =>
              /\ mpc' # "recv"
              /\ freq' = freq
              /\ counter' = counter
              /\ detail_log' = detail_log
              /\ Len(chan') >= Len(chan) ]_vars

C5_Witness ==
    /\ recv_err = "Timeout"
    /\ threads >= 1
    /\ AllExited
    /\ chan # <<>>
    /\ CounterSum >= 1

\* C6: the pair-count file and the sequence catalogue are written only when
\* every worker has terminated.
C6_WriteAfterAllWorkersDone ==
    /\ mpc \in {"write", "done"} => AllTerminated
    /\ (cnt_file # <<>> \/ fq_out # <<>>) => (mpc = "done" /\ AllTerminated)

C6_Witness ==
    /\ threads >= 2
    /\ mpc = "done"
    /\ cnt_file # <<>>
    /\ fq_out # <<>>

\* C7: once a worker has failed on a malformed record the output files are
\* never written, the record is not handed out again, and the run can only end
\* with main panicking.
C7_WorkerFailureIsFatal ==
    /\ SomePanicked => (mpc \notin {"write", "done"} /\ cnt_file = <<>> /\ fq_out = <<>>)
    /\ \A i \in 1..Len(input) :
          ~input[i].ok => (pulled[i] <= 1 /\ \A w \in Workers : rec[w] # i)
    /\ (SomePanicked /\ ~ENABLED Next) => mpc = "panicked"

C7_Witness ==
    /\ threads >= 2
    /\ mpc = "panicked"
    /\ CounterSum >= 1
    /\ \A w \in Workers : wpc[w] = "panicked"

RecById(id) == CHOOSE r \in Catalogue : r.id = id
Outcome(r, p) == extract_pet(r.seq, PatternLen, r.aln[p], Flanking)[1]
OkPatterns(r) == {p \in 1..NPatterns : Outcome(r, p).tag = "Ok"}
\* patterns attempted: up to the first one that yields Ok, else all of them
Attempts(r) ==
    IF OkPatterns(r) = {} THEN NPatterns
    ELSE CHOOSE p \in OkPatterns(r) : \A q \in OkPatterns(r) : p <= q
CounterField(tag) ==
    CASE tag = "Ok" -> "linker_reads"
      [] tag = "ScoreTooLow" -> "score_too_low"
      [] tag = "LeftTooShort" -> "left_too_short"
      [] tag = "RightTooShort" -> "right_too_short"

\* C8: a result holds the outcomes of the patterns in priority order up to the
\* first Ok; the aggregator counts Ok iff some pattern yields Ok and else the
\* outcome of the final pattern, and logs the diagnostics of the last pattern
\* attempted with the number of attempts.
C8_LastAttemptReported ==
    [][ /\ \A i \in 1..Len(chan') :
              LET m == chan'[i]
                  r == RecById(m.rec_id)
              IN  /\ Len(m.align_res) = Attempts(r)
                  /\ \A p \in 1..Attempts(r) : m.align_res[p][1] = Outcome(r, p)
                  /\ \A p \in 1..(Attempts(r) - 1) : m.align_res[p][1].tag # "Ok"
        /\ Len(chan') < Len(chan) =>
              LET r == RecById(Head(chan).rec_id)
                  n == Attempts(r)
                  tag == IF OkPatterns(r) # {} THEN "Ok" ELSE Outcome(r, NPatterns).tag
              IN  /\ counter' = [counter EXCEPT ![CounterField(tag)] = @ + 1]
                  /\ detail =>
                        detail_log' = Append(detail_log,
                            [rec_id |-> r.id, attempts |-> n, score |-> r.aln[n].score,
                             ystart |-> r.aln[n].ystart, yend |-> r.aln[n].yend]) ]_vars

C8_Witness ==
    /\ counter.linker_reads = 1
    /\ counter.right_too_short = 1
    /\ \E i \in 1..Len(detail_log) :
          detail_log[i].rec_id = "b" /\ detail_log[i].attempts = 2
    /\ \E i \in 1..Len(detail_log) :
          detail_log[i].rec_id = "c" /\ detail_log[i].attempts = 2

\* the outcome of the ordered rules on the aligner's result
RuleOutcome(c) ==
    IF c.alignment.score * ScoreRatioDen < c.plen * ScoreRatioNum THEN "ScoreTooLow"
    ELSE IF c.alignment.ystart < c.flanking THEN "LeftTooShort"
    ELSE IF c.alignment.yend + c.flanking > c.alignment.ylen THEN "RightTooShort"
    ELSE "Ok"

\* C9: extract_pet returns the outcome of the ordered rules (ScoreTooLow, else
\* LeftTooShort iff matchStart < flanking, else RightTooShort iff
\* matchEnd + flanking > readLength, else Ok), also for match starts >= 256.
C9_OrderedRules ==
    ret # NoRet => ret.tag = RuleOutcome(call)

\* C10: the tags of an Ok result are the `flanking` bases right before the
\* match start and right after the match end, inside the read.
C10_TagsAreFlanks ==
    (ret # NoRet /\ ret.tag = "Ok") =>
        LET ystart == call.alignment.ystart
            yend == call.alignment.yend
            fl == call.flanking
        IN  /\ ystart - fl >= 0
            /\ yend + fl <= Len(call.seq)
            /\ Len(ret.left) = fl
            /\ Len(ret.right) = fl
            /\ \A i \in 1..fl : ret.left[i] = call.seq[ystart - fl + i]
            /\ \A i \in 1..fl : ret.right[i] = call.seq[yend + i]

C10_Witness ==
    /\ ret.tag = "Ok"
    /\ call.flanking = DefaultFlanking
    /\ call.alignment.ystart >= U8
    /\ call.alignment.yend > call.alignment.ystart

\* the 2-bit code of a base of {A,C,G,T}
NtOf(b) == CASE b = bA -> 0 [] b = bC -> 1 [] b = bG -> 2 [] b = bT -> 3
Complement(b) == CASE b = bA -> bT [] b = bC -> bG [] b = bG -> bC [] b = bT -> bA
RevComp(q) == [i \in 1..Len(q) |-> Complement(q[Len(q) + 1 - i])]
\* the 2-bit code of a sequence of at most 32 bases: base i in bits 2i, 2i+1
CodeOf(q) ==
    [j \in 1..WordBits |->
        LET i == (j + 1) \div 2
        IN  IF i > Len(q) THEN 0
            ELSE IF j % 2 = 1 THEN NtOf(q[i]) % 2 ELSE NtOf(q[i]) \div 2]
IsACGT(q) == \A i \in 1..Len(q) : q[i] \in Bases

\* C11: on 1..32 bases of {A,C,G,T} compress_seq returns the smaller of the
\* code of s and the code of reverseComplement(s), and recover_seq of it with
\* len(s) gives s when the forward code is the smaller or equal one and
\* reverseComplement(s) otherwise.
C11_CanonicalRoundTrip ==
    (ret.res.kind # "" /\ Len(call.seq) \in 1..MaxCode /\ IsACGT(call.seq)) =>
        LET fwd == CodeOf(call.seq)
            rc == CodeOf(RevComp(call.seq))
        IN  /\ ret.res.kind = "Ok"
            /\ ret.res.code = IF GtW(fwd, rc) THEN rc ELSE fwd
            /\ ret.dec_done =>
                  ret.decoded = IF GtW(fwd, rc) THEN RevComp(call.seq) ELSE call.seq

C11_Witness ==
    /\ ret.dec_done
    /\ Len(call.seq) = MaxCode
    /\ IsACGT(call.seq)
    /\ ret.decoded = RevComp(call.seq)
    /\ ret.decoded # call.seq

\* C12: compress_seq fails iff the sequence has more than 32 bases, and on
\* 0..32 bases (empty and non-ACGT included) it returns a code without
\* failing and without overflow.
C12_FailsOnlyWhenTooLong ==
    ret.res.kind # "" =>
        IF Len(call.seq) > MaxCode
        THEN ret.res.kind = "Err"
        ELSE ret.res.kind = "Ok" /\ ~ret.res.overflow

\* the message with the two tags of its Ok result exchanged
SwappedTags(msg) ==
    LET last == LastAttempt(msg.align_res)
    IN  [msg EXCEPT !.align_res =
            <<<<ResOk(last[1].right, last[1].left), last[2]>>>>]

\* C13: every key (k0, k1) of the frequency table has k0 <= k1, and an
\* Ok(a, b) result increments the key an Ok(b, a) result would increment.
C13_KeyOrientationFree ==
    [][ /\ \A k \in DOMAIN freq' : k[1] <= k[2]
        /\ (Len(chan') < Len(chan) /\ LastAttempt(Head(chan).align_res)[1].tag = "Ok") =>
              freq' = FreqAfter(freq, SwappedTags(Head(chan))) ]_vars

C13_Witness ==
    /\ Len(input) = 2
    /\ input[1].id = "a"
    /\ input[2].id = "e"
    /\ Cardinality(DOMAIN freq) = 1
    /\ \E k \in DOMAIN freq : freq[k] = 2

\* <<k0, k1>> before <<l0, l1>> in key order
KeyLess(a, b) == a[1] < b[1] \/ (a[1] = b[1] /\ a[2] < b[2])

\* C14: the pair-count file lists the entries by descending count, entries of
\* equal count by key.
C14_CountThenKeyOrder ==
    mpc = "done" =>
        \A i, j \in 1..Len(cnt_file) :
            i < j => \/ cnt_file[i][3] > cnt_file[j][3]
                     \/ /\ cnt_file[i][3] = cnt_file[j][3]
                        /\ KeyLess(cnt_file[i], cnt_file[j])


\* ------------------------------------------------------------------------
\* getedges properties
\* ------------------------------------------------------------------------
ClassifyReturned == ret # NoNode
ParsedCall == parse_bwa_sam_rec(call.line)
IsMapped == ParsedCall.rname # Unmapped
MapqOk == ParsedCall.mapq >= call.th.mapq
MismatchOk == ParsedCall.n_mismatch <= call.th.mismatch
AlignedOk == ParsedCall.n_aligned <= call.th.aligned

\* C15: the checks of the classification are applied in a fixed order and
\* the first that matches decides: an unmapped record is NotFound whatever
\* its other fields; MapqTooSmall(mapq) is given exactly to a mapped record
\* below the minimum quality; TooManyMisMatch(n) exactly when, further, the
\* quality passes and the mismatches exceed the maximum; TooManyAligned(n)
\* exactly when, further, the mismatches pass and the alignments exceed the
\* maximum; Bait or Prey, by the prefix of the name, exactly when all pass.
C15_FirstMatchWins ==
    ClassifyReturned =>
        /\ ~IsMapped => ret = NotValid("NotFound", 0)
        /\ ret.reason = "NotFound" <=> ~IsMapped
        /\ ret.reason = "MapqTooSmall" <=> IsMapped /\ ~MapqOk
        /\ ret.reason = "MapqTooSmall" => ret.value = ParsedCall.mapq
        /\ ret.reason = "TooManyMisMatch" <=> IsMapped /\ MapqOk /\ ~MismatchOk
        /\ ret.reason = "TooManyMisMatch" => ret.value = ParsedCall.n_mismatch
        /\ ret.reason = "TooManyAligned" <=>
               IsMapped /\ MapqOk /\ MismatchOk /\ ~AlignedOk
        /\ ret.reason = "TooManyAligned" => ret.value = ParsedCall.n_aligned
        /\ ret.kind = "Bait" <=>
               /\ IsMapped /\ MapqOk /\ MismatchOk /\ AlignedOk
               /\ ParsedCall.rname.prefix = "bait_"
        /\ ret.kind = "Prey" <=>
               /\ IsMapped /\ MapqOk /\ MismatchOk /\ AlignedOk
               /\ ParsedCall.rname.prefix = "prey_"
        /\ ret.kind \in {"Bait", "Prey"} => ret.name = ParsedCall.rname

\* a mapped record that fails the quality, the mismatch and the alignment
\* check at once is reported for its quality
C15_Witness ==
    /\ ClassifyReturned
    /\ IsMapped /\ ~MapqOk /\ ~MismatchOk /\ ~AlignedOk
    /\ ret = NotValid("MapqTooSmall", ParsedCall.mapq)

NotFoundNode == NotValid("NotFound", 0)
NodeOrNotFound(id) == IF id \in DOMAIN key2node THEN key2node[id] ELSE NotFoundNode
AtCountLine == epc = "count" /\ cnt_pos < Len(cnt_lines)
ThisLine == cnt_lines[cnt_pos + 1]
LacksRecord(line) == line[1] \notin DOMAIN key2node \/ line[2] \notin DOMAIN key2node

\* C16: a pair of the count file with a read id that no alignment record
\* names is processed with that id classified NotValid(NotFound): the pair
\* is counted in the category of the two nodes and the run goes on to the
\* next pair.
C16_MissingIdIsNotFound ==
    [][ (AtCountLine /\ LacksRecord(ThisLine)) =>
            /\ epc' = "count"
            /\ cnt_pos' = cnt_pos + 1
            /\ res_counter' =
                   EdgeCount(bait_prey_cnt, res_counter, NodeOrNotFound(ThisLine[1]),
                             NodeOrNotFound(ThisLine[2]), ThisLine[3]).counter ]_vars

\* C17: the node of a read id, once derived, never changes: every id of the
\* map keeps its node in every step.
C17_NodeImmutable ==
    [][ \A id \in DOMAIN key2node :
            id \in DOMAIN key2node' /\ key2node'[id] = key2node[id] ]_vars

Kinds(line) == {key2node[line[1]].kind, key2node[line[2]].kind}
IsBaitPrey(line) == ~LacksRecord(line) /\ Kinds(line) = {"Bait", "Prey"}
BaitOf(line) ==
    IF key2node[line[1]].kind = "Bait" THEN key2node[line[1]].name
    ELSE key2node[line[2]].name
PreyOf(line) ==
    IF key2node[line[1]].kind = "Prey" THEN key2node[line[1]].name
    ELSE key2node[line[2]].name
OldCount(key) == IF key \in DOMAIN bait_prey_cnt THEN bait_prey_cnt[key] ELSE 0

\* C18: a pair of a Bait and a Prey node, in either order, adds its count to
\* the entry (bait, prey) of the edge table, bait first, and one to the
\* counter of valid pairs; no other entry and no other counter changes.
C18_BaitPreyAddsCount ==
    [][ (AtCountLine /\ IsBaitPrey(ThisLine)) =>
            LET key == <<BaitOf(ThisLine), PreyOf(ThisLine)>>
            IN  /\ DOMAIN bait_prey_cnt' = DOMAIN bait_prey_cnt \cup {key}
                /\ bait_prey_cnt'[key] = OldCount(key) + ThisLine[3]
                /\ \A k \in DOMAIN bait_prey_cnt \ {key} :
                       bait_prey_cnt'[k] = bait_prey_cnt[k]
                /\ res_counter' =
                       [res_counter EXCEPT !.n_valid_pair = @ + 1] ]_vars

\* the pair Prey-Bait and the pair Bait-Prey were both added to one entry
C18_Witness ==
    /\ epc = "done"
    /\ cnt_lines = <<(<<7, 9, 5>>), (<<9, 7, 2>>)>>
    /\ key2node[7].kind = "Prey" /\ key2node[9].kind = "Bait"
    /\ bait_prey_cnt = (<<BaitA, PreyB>> :> 7)
    /\ res_counter.n_valid_pair = 2

EdgeCounterSum ==
    res_counter.n_valid_pair + res_counter.n_prey_nv_pair
        + res_counter.n_bait_nv_pair + res_counter.n_nv_pair
SameRole(line) == ~LacksRecord(line) /\ Kinds(line) \in {{"Bait"}, {"Prey"}}
InFourCategories(line) == ~LacksRecord(line) /\ ~SameRole(line)
CountingOrDone == epc \in {"count", "done"}

\* C19: when every pair processed so far is Bait-Prey, Bait-NotValid,
\* Prey-NotValid or NotValid-NotValid, the four counters sum to the number
\* of pairs processed, whatever the counts of the pairs.
C19_CountersSumToPairs ==
    (CountingOrDone /\ \A i \in 1..cnt_pos : InFourCategories(cnt_lines[i]))
        => EdgeCounterSum = cnt_pos

\* two pairs of counts 5 and 2, a NotValid-Bait and a Bait-NotValid pair
C19_Witness ==
    /\ epc = "done"
    /\ cnt_pos = 2
    /\ cnt_lines = <<(<<7, 9, 5>>), (<<9, 7, 2>>)>>
    /\ key2node[7].kind = "NotValid" /\ key2node[9].kind = "Bait"
    /\ res_counter.n_bait_nv_pair = 2
    /\ EdgeCounterSum = 2

\* C20: a pair of two Bait nodes or of two Prey nodes changes no counter and
\* no entry of the edge table, and the next pair is processed.
C20_SameRoleIgnored ==
    [][ (AtCountLine /\ SameRole(ThisLine)) =>
            /\ res_counter' = res_counter
            /\ bait_prey_cnt' = bait_prey_cnt
            /\ epc' = "count"
            /\ cnt_pos' = cnt_pos + 1 ]_vars

\* a Prey-Prey pair was passed over, and the pair after it too
C20_Witness ==
    /\ epc = "done"
    /\ cnt_lines = <<(<<7, 11, 1>>), (<<7, 11, 1>>)>>
    /\ key2node[7].kind = "Prey" /\ key2node[11].kind = "Prey"
    /\ key2node[7].name = key2node[11].name
    /\ cnt_pos = 2
    /\ EdgeCounterSum = 0
    /\ bait_prey_cnt = EmptyMap


OtherPrefix == ParsedCall.rname.prefix \notin {"bait_", "prey_"}

\* C21: a record whose reference name is mapped and starts with neither
\* "bait_" nor "prey_" aborts the run and is never given a NotValid node,
\* whatever its mapping quality, its mismatches and its alignments are.
C21_OtherPrefixIsFatal ==
    (ClassifyReturned /\ IsMapped /\ OtherPrefix) => ret = NodePanic

NMValues(opt) == {opt[j].val : j \in {n \in 1..Len(opt) : opt[n].tag = "NM"}}

\* C23: the mismatch count the classifier reads for a mapped record that
\* passed the quality check is the number of its NM tag wherever
\* the tag stands among the optional fields, the first one included, and 0
\* only when the record has no NM tag.
C23_MismatchIsNMTag ==
    (ClassifyReturned /\ IsMapped /\ MapqOk) =>
        IF NMValues(call.line.opt) = {}
        THEN ParsedCall.n_mismatch = 0
        ELSE ParsedCall.n_mismatch \in NMValues(call.line.opt)


ExactDecode(r) ==
    /\ r.kind = "Ok"
    /\ Len(r.chars) = call.k
    /\ \A i \in 1..Len(r.chars) : r.chars[i] \in Bases

\* C22: recover_seq never fails and returns exactly k characters over
\* {A,C,G,T} for every code and every k in 0..32, in paircnt and in the
\* single-threaded program.
C22_DecodeExactLength ==
    /\ ret.paircnt # NoDecoded => ExactDecode(ret.paircnt)
    /\ ret.single # NoDecoded => ExactDecode(ret.single)


RECURSIVE SumOver(_, _)
SumOver(f, S) ==
    IF S = {} THEN 0
    ELSE LET k == CHOOSE x \in S : TRUE
         IN  f[k] + SumOver(f, S \ {k})
FreqSum(f) == SumOver(f, DOMAIN f)
Consumes == mpc = "recv" /\ chan # <<>> /\ chan' = Tail(chan)
HeadOutcome == LastAttempt(Head(chan).align_res)[1]
GrowsByOne(f, g, key) ==
    /\ DOMAIN g = DOMAIN f \cup {key}
    /\ g[key] = (IF key \in DOMAIN f THEN f[key] ELSE 0) + 1
    /\ \A k \in DOMAIN f \ {key} : g[k] = f[k]

\* C24: the counts of the frequency table always sum to the counter of Ok
\* results; consuming an Ok result adds 1 to exactly one key, which starts
\* at 1 when it was absent, and consuming any other result leaves the table
\* as it was.
C24_FreqSumIsLinkerReads ==
    /\ [](FreqSum(freq) = counter.linker_reads)
    /\ [][ Consumes =>
             IF HeadOutcome.tag = "Ok"
             THEN \E key \in DOMAIN freq' : GrowsByOne(freq, freq', key)
             ELSE freq' = freq ]_vars

\* two Ok results on one key and nothing left in the channel
C24_Witness ==
    /\ mpc = "done"
    /\ counter.linker_reads = 2
    /\ \E key \in DOMAIN freq : freq[key] = 2
    /\ FreqSum(freq) = 2
    /\ chan = <<>>


Stopped == mpc = "join"
Running(w) == wpc[w] \in {"lock", "next", "extract", "send"}
SendsAfterStop(w) == Stopped /\ wpc[w] = "send" /\ wpc'[w] # "send"

\* C25: after the aggregator has stopped on its timeout the workers are not
\* cancelled: a worker that holds a record or the lock can take its next
\* step, a worker waiting for the free lock can take it, every send after
\* the stop appends its result to the channel and returns, and no step after
\* the stop changes the frequency table or the outcome counters.
C25_WorkersOutliveAggregator ==
    /\ [](\A w \in Workers :
            (Stopped /\ Running(w)) =>
                \/ ENABLED WorkerNext(w)
                \/ ENABLED WorkerExtract(w)
                \/ ENABLED WorkerSend(w)
                \/ (wpc[w] = "lock" /\ (MutexFree(guards) => ENABLED WorkerLock(w))))
    /\ [][ /\ \A w \in Workers :
                SendsAfterStop(w) =>
                    /\ wpc'[w] = "lock"
                    /\ chan' = Append(chan, [align_res |-> align_res[w],
                                             rec_id |-> input[rec[w]].id])
           /\ mpc # "recv" => (freq' = freq /\ counter' = counter) ]_vars

\* the run ended with every read pulled, one result still in the channel and
\* that read in no counter
C25_Witness ==
    /\ mpc = "done"
    /\ \A w \in Workers : wpc[w] = "exited"
    /\ records = Len(input)
    /\ Len(input) = 2
    /\ Len(chan) = 1
    /\ CounterSum = 1


NoMalformed == \A i \in 1..Len(input) : input[i].ok
ExtractionsComplete ==
    \A w \in 1..MaxFairThreads : WF_vars(w \in Workers /\ WorkerExtract(w))
RunTerminated == mpc = "done" /\ AllExited /\ recv_err = "Timeout"
StuckInExtract(w) == w \in Workers /\ wpc[w] = "extract"

\* C26: on an input without malformed record, under fair scheduling, when
\* every extraction completes the run terminates: every worker has exited,
\* the aggregator has timed out and the joins have returned; and when some
\* worker stays in an extraction forever, main stays at the join forever,
\* after the aggregator has stopped.
C26_TerminatesUnlessWorkerStuck ==
    /\ (NoMalformed /\ ExtractionsComplete) => <>RunTerminated
    /\ \A w \in 1..MaxFairThreads :
           (NoMalformed /\ <>[]StuckInExtract(w)) => <>[](mpc = "join" /\ recv_err = "Timeout")

\* two workers, one good read, and the run is over with the read counted
C26_Witness ==
    /\ RunTerminated
    /\ NoMalformed
    /\ threads = 2
    /\ Len(input) = 1
    /\ chan = <<>>
    /\ CounterSum = 1

====
